---- MODULE Spec2Model ----
(***************************************************************************)
(* Upload lifecycle engine of ed-upload-manager:                           *)
(*   - CreateUploadSessionHandler.do_process (the resumable upload         *)
(*     initiator) and                                                      *)
(*   - handle_gcs_finalize_push behind POST /internal/storage/             *)
(*     object-finalized (the finalize event processor),                    *)
(* over the UploadSession/File store and the job publisher.                *)
(*                                                                         *)
(* Conventions.  Python None and an absent dict key are the string None.   *)
(* A dict is a function from its keys.  Text that the code inspects        *)
(* character-wise (file names, object keys, content types) is a sequence   *)
(* of atoms; an identifier is one atom.  Every `await` of a handler is one *)
(* step of its process; the store commits each DAL call on its own.        *)
(***************************************************************************)
EXTENDS Integers, Sequences, FiniteSets, TLC

VARIABLES
    sessions,   \* UploadSession rows by id
    files,      \* File rows by id
    jobs,       \* jobs handed to enqueue_job and published, oldest first
    storage,    \* resumable uploads the storage backend accepted
    ids,        \* identifiers generated so far
    batches,    \* create-session requests accepted so far
    ipc,        \* position of CreateUploadSessionHandler.do_process
    ireq,       \* its arguments: datastore_id and the file specs
    isess,      \* its session_id
    iidx,       \* index of the file spec it is working on
    irow,       \* id of the File row it saved last
    iout,       \* its list `out`
    ipre,       \* ids of the rows that existed when do_process began
    deliveries, \* finalize pushes accepted so far
    fpc,        \* position of each object_finalized request
    floc,       \* locals of each handle_gcs_finalize_push run
    fdid,       \* steps each run has completed
    fpre,       \* store and queue as they were when each run began
    acked,      \* push bodies answered 204 so far
    calls       \* calls of the pure helpers made on their own, oldest first

vars == <<sessions, files, jobs, storage, ids, batches, ipc, ireq, isess, iidx,
          irow, iout, ipre, deliveries, fpc, floc, fdid, fpre, acked, calls>>

ivars == <<ids, batches, ipc, ireq, isess, iidx, irow, iout, ipre, storage>>
fvars == <<deliveries, fpc, floc, fdid, fpre, acked>>

-----------------------------------------------------------------------------
(* Bounds *)

MaxFiles == 2        \* most file specs in one batch request
MaxBatches == 1      \* create-session requests served
MaxDeliveries == 2   \* finalize pushes served
MaxCalls == 2        \* calls of the pure helpers followed
MaxFailures == 2     \* enqueue failures before the publisher recovers

Procs == {"w1", "w2"}   \* concurrent object_finalized requests

-----------------------------------------------------------------------------
(* Values *)

None == "None"
EmptyDict == << >>

Get(d, k) == IF k \in DOMAIN d THEN d[k] ELSE None
Truthy(v) == v # None /\ v # ""

Put(f, k, v) == [x \in DOMAIN f \cup {k} |-> IF x = k THEN v ELSE f[x]]

\* "/".join(parts)
RECURSIVE JoinSlash(_)
JoinSlash(parts) ==
    IF parts = << >> THEN << >>
    ELSE IF Len(parts) = 1 THEN parts[1]
    ELSE parts[1] \o <<"/">> \o JoinSlash(Tail(parts))

\* a str argument as the text it is: "" has no atoms
Text(s) == IF s = "" \/ s = None THEN << >> ELSE <<s>>

BUCKET_NAME == "bkt"
BASE_PREFIX == "raw"
DATASTORE == "ds1"

CT_PDF == <<"application", "/", "pdf">>
CT_OCTET == <<"application", "/", "octet-stream">>
NoText == << >>

\* generate_id(kind) and File's id default_factory: an identifier not yet used
NewId(kind, n) == kind \o ToString(n + 1)

-----------------------------------------------------------------------------
(* Resumable upload initiator *)

InferContentType(spec) ==
    IF spec.content_type = NoText THEN CT_OCTET ELSE spec.content_type

\* filename.replace(" ", "_")
ReplaceSpaces(name) == [i \in DOMAIN name |-> IF name[i] = " " THEN "_" ELSE name[i]]

\* the key without its file id segment
ObjectKeyFor_NoFileId(base_prefix, datastore_id, session_id, file_id, filename) ==
    LET safe_name == ReplaceSpaces(IF filename = NoText THEN <<"unnamed">> ELSE filename)
        parts == << Text(base_prefix), <<"datastore">>, Text(datastore_id),
                    <<"session">>, Text(session_id), safe_name >>
    IN  JoinSlash(SelectSeq(parts, LAMBDA p : p # << >>))

ObjectKeyFor(base_prefix, datastore_id, session_id, file_id, filename) ==
    LET safe_name == ReplaceSpaces(IF filename = NoText THEN <<"unnamed">> ELSE filename)
        parts == << Text(base_prefix), <<"datastore">>, Text(datastore_id),
                    <<"session">>, Text(session_id), <<"file">>, Text(file_id),
                    safe_name >>
    IN  JoinSlash(SelectSeq(parts, LAMBDA p : p # << >>))

FileNames == { <<"a">>, <<"b", " ", "c">> }
SpecContentTypes == { CT_PDF, NoText }
FileSpecs == [filename : FileNames, content_type : SpecContentTypes]

BatchRequests == UNION { [1..n -> FileSpecs] : n \in 0..MaxFiles }

GcsMetadata(datastore_id, session_id, file_id) ==
    ("datastoreId" :> datastore_id) @@ ("uploadSessionId" :> session_id)
        @@ ("fileId" :> file_id)

NewSessionRow(session_id, datastore_id) ==
    [id |-> session_id, datastore_id |-> datastore_id, status |-> "authorized"]

NewFileRow(file_id, datastore_id, session_id, spec) ==
    [id |-> file_id,
     datastore_id |-> datastore_id,
     bucket |-> BUCKET_NAME,
     object_key |-> ObjectKeyFor(BASE_PREFIX, datastore_id, session_id, file_id,
                                 spec.filename),
     filename |-> spec.filename,
     content_type |-> InferContentType(spec),
     size |-> 0,
     status |-> "authorized",
     upload_session_id |-> session_id]

\* the Location header the storage backend answers for an object
LocationOf(key) == <<"https://storage/upload?upload_id=">> \o key

\* the entry with the query string of the upload URL cut off
OutEntry_BareUrl(session_id, row, upload_url) ==
    [session_id |-> session_id,
     file_id |-> row.id,
     upload_id |-> session_id,
     object_key |-> row.object_key,
     upload_url |-> <<"https://storage/upload">>,
     content_type |-> row.content_type,
     suggested_chunk_bytes |-> 8 * 1024 * 1024]

OutEntry(session_id, row, upload_url) ==
    [session_id |-> session_id,
     file_id |-> row.id,
     upload_id |-> session_id,
     object_key |-> row.object_key,
     upload_url |-> upload_url,
     content_type |-> row.content_type,
     suggested_chunk_bytes |-> 8 * 1024 * 1024]

\* do_process up to the end of `await self.dal.save(session_row)`; with no
\* file spec the loop body never runs and the 201 response follows at once
CreateSession(specs) ==
    /\ ipc = "idle"
    /\ batches < MaxBatches
    /\ LET session_id == NewId("UPLD", ids)
       IN  /\ sessions' = Put(sessions, session_id, NewSessionRow(session_id, DATASTORE))
           /\ isess' = session_id
           /\ ipre' = [sessions |-> DOMAIN sessions, files |-> DOMAIN files]
    /\ ids' = ids + 1
    /\ batches' = batches + 1
    /\ ireq' = [datastore_id |-> DATASTORE, files |-> specs]
    /\ iidx' = 1
    /\ irow' = None
    /\ iout' = << >>
    /\ ipc' = IF specs = << >> THEN "return" ELSE "save_file"
    /\ UNCHANGED <<files, jobs, storage>>
    /\ UNCHANGED fvars
    /\ UNCHANGED calls

\* the loop iteration with the File row built and not saved
SaveFile_Unsaved ==
    /\ ipc = "save_file"
    /\ irow' = NewId("FILE", ids)
    /\ ids' = ids + 1
    /\ ipc' = "initiate"
    /\ UNCHANGED <<sessions, files, jobs, storage, batches, ireq, isess, iidx, iout, ipre>>
    /\ UNCHANGED fvars
    /\ UNCHANGED calls

\* one loop iteration up to the end of `await self.file_dal.save(file_row)`
SaveFile ==
    /\ ipc = "save_file"
    /\ LET file_id == NewId("FILE", ids)
           row == NewFileRow(file_id, ireq.datastore_id, isess, ireq.files[iidx])
       IN  /\ files' = Put(files, file_id, row)
           /\ irow' = file_id
    /\ ids' = ids + 1
    /\ ipc' = "initiate"
    /\ UNCHANGED <<sessions, jobs, storage, batches, ireq, isess, iidx, iout, ipre>>
    /\ UNCHANGED fvars
    /\ UNCHANGED calls

InitiateOutcomes == {"ok", "bad_status", "no_location"}

\* _initiate_resumable and the rest of the loop iteration; HTTPException(502)
\* leaves do_process through `except HTTPException: raise`
InitiateResumable(outcome) ==
    /\ ipc = "initiate"
    /\ LET row == files[irow]
           upload_url == LocationOf(row.object_key)
       IN  IF outcome = "ok"
             THEN /\ storage' = storage \cup
                        {[bucket |-> row.bucket, name |-> row.object_key,
                          contentType |-> row.content_type,
                          metadata |-> GcsMetadata(ireq.datastore_id, isess, row.id)]}
                  /\ iout' = Append(iout, OutEntry(isess, row, upload_url))
                  /\ IF iidx = Len(ireq.files)
                       THEN ipc' = "return" /\ iidx' = iidx
                       ELSE ipc' = "save_file" /\ iidx' = iidx + 1
             ELSE /\ ipc' = "raise"
                  /\ UNCHANGED <<storage, iout, iidx>>
    /\ UNCHANGED <<sessions, files, jobs, ids, batches, ireq, isess, irow, ipre>>
    /\ UNCHANGED fvars
    /\ UNCHANGED calls

\* ServiceResponse(status_code=201, data=out) when do_process returned, the
\* HTTPException's 502 when it raised
InitiatorStatus(pc) ==
    CASE pc = "return" -> 201
      [] pc = "raise" -> 502
      [] OTHER -> 0

\* what the caller of do_process gets: the ServiceResponse with `out` as its
\* data, or the HTTPException, which carries a fixed detail text and nothing
\* of `out`
InitiatorResponse(pc, out) ==
    IF pc = "return"
      THEN [status_code |-> InitiatorStatus(pc), data |-> out]
      ELSE [status_code |-> InitiatorStatus(pc), data |-> << >>]

NoRequest == [datastore_id |-> DATASTORE, files |-> << >>]
NoRows == [sessions |-> {}, files |-> {}]

\* the response leaves; the handler instance and its locals are gone
InitiatorRespond ==
    /\ ipc \in {"return", "raise"}
    /\ ipc' = "idle"
    /\ ireq' = NoRequest
    /\ isess' = None
    /\ iidx' = 1
    /\ irow' = None
    /\ iout' = << >>
    /\ ipre' = NoRows
    /\ UNCHANGED <<sessions, files, jobs, storage, ids, batches>>
    /\ UNCHANGED fvars
    /\ UNCHANGED calls

-----------------------------------------------------------------------------
(* The store: FileDAL and UploadSessionDAL *)

FileIdsByKey(fs, key) == {f \in DOMAIN fs : fs[f].object_key = key}

\* FileDAL.create_or_update_from_finalize: one atomic create-or-update keyed
\* by object_key.  An absent row is created from the arguments; a present row
\* takes content_type and size from the event and the status passed in.
CreateOrUpdateFromFinalize(fs, n, a) ==
    LET hit == FileIdsByKey(fs, a.object_key)
    IN  IF hit = {}
          THEN LET file_id == NewId("FILE", n)
               IN  [files |-> Put(fs, file_id,
                                  [id |-> file_id,
                                   datastore_id |-> a.datastore_id,
                                   bucket |-> a.bucket,
                                   object_key |-> a.object_key,
                                   filename |-> a.filename,
                                   content_type |-> a.content_type,
                                   size |-> a.size,
                                   status |-> a.status,
                                   upload_session_id |-> a.upload_id]),
                    id |-> file_id,
                    created |-> TRUE]
          ELSE LET file_id == CHOOSE f \in hit : TRUE
               IN  [files |-> [fs EXCEPT ![file_id].content_type = a.content_type,
                                         ![file_id].size = a.size,
                                         ![file_id].status = a.status],
                    id |-> file_id,
                    created |-> FALSE]

\* FileDAL.link_upload
LinkUpload(fs, file_id, upload_id) ==
    IF file_id \in DOMAIN fs
      THEN [fs EXCEPT ![file_id].upload_session_id = upload_id]
      ELSE fs

\* FileDAL.mark_status
MarkStatus(fs, file_id, status) ==
    IF file_id \in DOMAIN fs THEN [fs EXCEPT ![file_id].status = status] ELSE fs

\* UploadSessionDAL.mark_uploaded: a session already uploaded or later stays
MarkUploaded(ss, upload_id) ==
    IF upload_id \in DOMAIN ss /\ ss[upload_id].status \in {"initiated", "authorized"}
      THEN [ss EXCEPT ![upload_id].status = "uploaded"]
      ELSE ss

\* UploadSessionDAL.mark_processing
MarkProcessing(ss, upload_id) ==
    IF upload_id \in DOMAIN ss THEN [ss EXCEPT ![upload_id].status = "processing"] ELSE ss

\* UploadSessionDAL.mark_ready
MarkReady(ss, upload_id) ==
    IF upload_id \in DOMAIN ss THEN [ss EXCEPT ![upload_id].status = "ready"] ELSE ss

\* UploadSessionDAL.update_session(upload_id, status=...)
UpdateSession(ss, upload_id, status) ==
    IF upload_id \in DOMAIN ss THEN [ss EXCEPT ![upload_id].status = status] ELSE ss

-----------------------------------------------------------------------------
(* Push bodies on the wire *)

\* message.data is a string of base64 characters.  A quad is four characters
\* of the base64 alphabet standing for the text they encode, a stray is
\* alphabet characters that complete no quad, junk is a character outside the
\* alphabet.  The encoded text is a JSON document or bytes that are none.
JsonDoc(value) == [doc |-> "json", value |-> value]
Garbage == [doc |-> "garbage", value |-> EmptyDict]
Quad(text) == [sym |-> "quad", text |-> text]
Stray == [sym |-> "stray", text |-> Garbage]
Junk == [sym |-> "junk", text |-> Garbage]

NoData == << >>

\* base64.b64decode(s) with validate=False: characters outside the alphabet
\* are discarded before the padding check
B64Decode(data) ==
    LET kept == SelectSeq(data, LAMBDA c : c.sym # "junk")
    IN  IF \E i \in DOMAIN kept : kept[i].sym = "stray"
          THEN [ok |-> FALSE, raw |-> << >>]
          ELSE [ok |-> TRUE, raw |-> [i \in DOMAIN kept |-> kept[i].text]]

\* json.loads(raw): exactly one JSON document
JsonLoads(raw) ==
    IF Len(raw) = 1 /\ raw[1].doc = "json"
      THEN [ok |-> TRUE, value |-> raw[1].value]
      ELSE [ok |-> FALSE, value |-> EmptyDict]

DecodePubsubBody(push_body) ==
    LET msg == IF "message" \in DOMAIN push_body THEN push_body["message"] ELSE EmptyDict
        data_b64 == IF "data" \in DOMAIN msg THEN msg["data"] ELSE NoData
        bytes == B64Decode(data_b64)
        doc == JsonLoads(bytes.raw)
    IN  IF data_b64 = NoData \/ ~bytes.ok \/ ~doc.ok
          THEN [ok |-> FALSE, payload |-> EmptyDict]
          ELSE [ok |-> TRUE, payload |-> doc.value]

PushBody(data) == "message" :> ("data" :> data)
Encode(payload) == PushBody(<<Quad(JsonDoc(payload))>>)

-----------------------------------------------------------------------------
(* Finalize event processor *)

Lower(ct) ==
    [i \in DOMAIN ct |->
        CASE ct[i] = "APPLICATION" -> "application"
          [] ct[i] = "PDF" -> "pdf"
          [] ct[i] = "VIDEO" -> "video"
          [] ct[i] = "IMAGE" -> "image"
          [] ct[i] = "TEXT" -> "text"
          [] ct[i] = "CSV" -> "csv"
          [] OTHER -> ct[i]]

StartsWith(s, prefix) ==
    /\ Len(prefix) <= Len(s)
    /\ \A i \in DOMAIN prefix : s[i] = prefix[i]

\* the table with its csv row matched by prefix
DetectJobTopic_CsvPrefix(content_type) ==
    IF content_type = NoText THEN None
    ELSE LET ct == Lower(content_type)
         IN  IF StartsWith(ct, <<"application", "/", "pdf">>) THEN "process-pdf"
             ELSE IF StartsWith(ct, <<"video", "/">>) THEN "process-video"
             ELSE IF StartsWith(ct, <<"image", "/">>) THEN "process-image"
             ELSE IF StartsWith(ct, <<"text", "/", "csv">>)
                       \/ StartsWith(ct, <<"application", "/", "csv">>)
                    THEN "process-csv"
             ELSE None

DetectJobTopic(content_type) ==
    IF content_type = NoText THEN None
    ELSE LET ct == Lower(content_type)
         IN  IF StartsWith(ct, <<"application", "/", "pdf">>) THEN "process-pdf"
             ELSE IF StartsWith(ct, <<"video", "/">>) THEN "process-video"
             ELSE IF StartsWith(ct, <<"image", "/">>) THEN "process-image"
             ELSE IF ct \in { <<"text", "/", "csv">>, <<"application", "/", "csv">> }
                    THEN "process-csv"
             ELSE None

GetText(d, k) == IF k \in DOMAIN d THEN d[k] ELSE NoText

\* object_key.rsplit("/", 1)[-1]
RECURSIVE LastSegment(_)
LastSegment(key) ==
    IF key = << >> THEN << >>
    ELSE IF key[Len(key)] = "/" THEN << >>
    ELSE Append(LastSegment(SubSeq(key, 1, Len(key) - 1)), key[Len(key)])

\* int(size_str), 0 when it raises
ParseSize(size_str) ==
    CASE size_str = "0" -> 0
      [] size_str = "5" -> 5
      [] OTHER -> 0

\* lines 88-101: the locals read off the decoded payload
PayloadFields(payload) ==
    LET meta == IF "metadata" \in DOMAIN payload THEN payload["metadata"] ELSE EmptyDict
        object_key == GetText(payload, "name")
        ct == GetText(payload, "contentType")
        size_str == IF Truthy(Get(payload, "size")) THEN payload["size"] ELSE "0"
    IN  [bucket |-> Get(payload, "bucket"),
         object_key |-> object_key,
         content_type |-> IF ct = NoText THEN CT_OCTET ELSE ct,
         size |-> ParseSize(size_str),
         upload_id |-> Get(meta, "uploadId"),
         datastore_id |-> Get(meta, "datastoreId"),
         filename |-> IF object_key # NoText THEN LastSegment(object_key)
                      ELSE <<"unknown">>]

\* the check without its bucket conjunct
MissingRequired_NoBucket(f) ==
    ~(f.object_key # NoText /\ Truthy(f.datastore_id))

\* line 103
MissingRequired(f) ==
    ~(Truthy(f.bucket) /\ f.object_key # NoText /\ Truthy(f.datastore_id))

UpsertArgs(f) ==
    [datastore_id |-> f.datastore_id, bucket |-> f.bucket, object_key |-> f.object_key,
     filename |-> f.filename, content_type |-> f.content_type, size |-> f.size,
     upload_id |-> f.upload_id, status |-> "processing"]

\* the job payload built from the event alone, without the upserted row
JobPayload_NoRow(f, topic) ==
    [topic |-> topic,
     uploadId |-> f.upload_id,
     fileId |-> None,
     datastoreId |-> f.datastore_id,
     bucket |-> f.bucket,
     objectKey |-> f.object_key,
     contentType |-> f.content_type,
     size |-> f.size]

JobPayload(f, topic) ==
    [topic |-> topic,
     uploadId |-> f.upload_id,
     fileId |-> f.file_row.id,
     datastoreId |-> f.datastore_id,
     bucket |-> f.bucket,
     objectKey |-> f.object_key,
     contentType |-> f.content_type,
     size |-> f.size]

\* step 3 of the handler: where the run goes once step 2 is over
Route(f) == IF DetectJobTopic(f.content_type) # None THEN "enqueue" ELSE "mark_status"

\* the upsert followed at once by the routing
AfterUpsert_SkipUploaded(f) == Route(f)

\* after the upsert: `if upload_id:`
AfterUpsert(f) == IF Truthy(f.upload_id) THEN "mark_uploaded" ELSE Route(f)

\* link_upload whatever link the File row has
AfterMarkUploaded_AlwaysLink(f) == "link_upload"

\* after mark_uploaded: `if not file_row.upload_id:`
AfterMarkUploaded(f) ==
    IF ~Truthy(f.file_row.upload_session_id) THEN "link_upload" ELSE Route(f)

\* an enqueue error swallowed: the handler goes on as if the job were queued
AfterEnqueue_Swallow(f, outcome) ==
    IF Truthy(f.upload_id) THEN "mark_processing" ELSE "return"

\* after enqueue_job returned or raised: `if upload_id:` on the way on, the
\* exception out of the handler otherwise
AfterEnqueue(f, outcome) ==
    IF outcome # "published" THEN "raise"
    ELSE IF Truthy(f.upload_id) THEN "mark_processing" ELSE "return"

\* the File marked ready and the session left as it is
AfterMarkStatus_SkipSession(f) == "return"

\* after mark_status(file_row.id, "ready"): `if upload_id:`
AfterMarkStatus(f) == IF Truthy(f.upload_id) THEN "mark_ready" ELSE "return"

\* object_finalized: 204 when the handler returned, 400 on ValueError, 500 on
\* any other exception
StatusOf(pc) ==
    CASE pc = "return" -> 204
      [] pc = "value_error" -> 400
      [] pc = "raise" -> 500
      [] OTHER -> 0

Ended(pc) == pc \in {"return", "value_error", "raise"}

\* the run moves to pc with locals f
Goto(p, pc, f) ==
    /\ fpc' = [fpc EXCEPT ![p] = pc]
    /\ floc' = [floc EXCEPT ![p] = f]
    /\ UNCHANGED acked

NoLocals == [body |-> EmptyDict]

Did(p, step) == fdid' = [fdid EXCEPT ![p] = @ \cup {step}]

Snapshot(body) ==
    [files |-> files, sessions |-> sessions, jobs |-> jobs,
     redelivery |-> body \in acked]

NoSnapshot == [files |-> << >>, sessions |-> << >>, jobs |-> << >>, redelivery |-> FALSE]

\* the request arrives; lines 84-114 run up to the first await
FinalizeArrive(p, body) ==
    /\ fpc[p] = "idle"
    /\ deliveries' = deliveries + 1
    /\ fpre' = [fpre EXCEPT ![p] = Snapshot(body)]
    /\ LET dec == DecodePubsubBody(body)
           f == PayloadFields(dec.payload)
       IN  IF ~dec.ok
             THEN /\ Goto(p, "value_error", [body |-> body])
                  /\ fdid' = [fdid EXCEPT ![p] = {"malformed"}]
           ELSE IF MissingRequired(f)
             THEN /\ Goto(p, "value_error", [body |-> body])
                  /\ fdid' = [fdid EXCEPT ![p] = {"decode", "missing_fields"}]
           ELSE /\ Goto(p, "upsert",
                        f @@ [body |-> body,
                              file_row |-> [id |-> None, upload_session_id |-> None]])
                /\ fdid' = [fdid EXCEPT ![p] = {"decode", "validate"}]
    /\ UNCHANGED <<sessions, files, jobs>>
    /\ UNCHANGED ivars
    /\ UNCHANGED calls

\* one of the finalize pushes followed
FinalizeBegin(p, body) ==
    /\ deliveries < MaxDeliveries
    /\ FinalizeArrive(p, body)

\* line 117
Upsert(p) ==
    /\ fpc[p] = "upsert"
    /\ LET r == CreateOrUpdateFromFinalize(files, ids, UpsertArgs(floc[p]))
           f == [floc[p] EXCEPT !.file_row =
                    [id |-> r.id,
                     upload_session_id |-> r.files[r.id].upload_session_id]]
       IN  /\ files' = r.files
           /\ ids' = IF r.created THEN ids + 1 ELSE ids
           /\ Goto(p, AfterUpsert(f), f)
    /\ Did(p, "upsert")
    /\ UNCHANGED <<sessions, jobs, deliveries, fpre>>
    /\ UNCHANGED <<batches, ipc, ireq, isess, iidx, irow, iout, ipre, storage>>
    /\ UNCHANGED calls

\* line 135
MarkUploadedStep(p) ==
    /\ fpc[p] = "mark_uploaded"
    /\ sessions' = MarkUploaded(sessions, floc[p].upload_id)
    /\ Goto(p, AfterMarkUploaded(floc[p]), floc[p])
    /\ Did(p, "mark_uploaded")
    /\ UNCHANGED <<files, jobs, deliveries, fpre>>
    /\ UNCHANGED ivars
    /\ UNCHANGED calls

\* line 138
LinkUploadStep(p) ==
    /\ fpc[p] = "link_upload"
    /\ files' = LinkUpload(files, floc[p].file_row.id, floc[p].upload_id)
    /\ Goto(p, Route(floc[p]), floc[p])
    /\ Did(p, "link_upload")
    /\ UNCHANGED <<sessions, jobs, deliveries, fpre>>
    /\ UNCHANGED ivars
    /\ UNCHANGED calls

\* enqueue_job: publish, then future.result(timeout=10).  The publish is
\* confirmed, or it fails, or the wait times out on a message that is
\* published all the same.
EnqueueOutcomes == {"published", "failed", "timeout"}

\* lines 143-156
Enqueue(p, outcome) ==
    /\ fpc[p] = "enqueue"
    /\ jobs' = IF outcome = "failed" THEN jobs
               ELSE Append(jobs, JobPayload(floc[p], DetectJobTopic(floc[p].content_type)))
    /\ Goto(p, AfterEnqueue(floc[p], outcome), floc[p])
    /\ Did(p, IF outcome = "published" THEN "enqueue" ELSE "enqueue_error")
    /\ UNCHANGED <<sessions, files, deliveries, fpre>>
    /\ UNCHANGED ivars
    /\ UNCHANGED calls

\* line 160
MarkProcessingStep(p) ==
    /\ fpc[p] = "mark_processing"
    /\ sessions' = MarkProcessing(sessions, floc[p].upload_id)
    /\ Goto(p, "return", floc[p])
    /\ Did(p, "mark_processing")
    /\ UNCHANGED <<files, jobs, deliveries, fpre>>
    /\ UNCHANGED ivars
    /\ UNCHANGED calls

\* line 164
MarkStatusStep(p) ==
    /\ fpc[p] = "mark_status"
    /\ files' = MarkStatus(files, floc[p].file_row.id, "ready")
    /\ Goto(p, AfterMarkStatus(floc[p]), floc[p])
    /\ Did(p, "mark_status")
    /\ UNCHANGED <<sessions, jobs, deliveries, fpre>>
    /\ UNCHANGED ivars
    /\ UNCHANGED calls

\* line 166
MarkReadyStep(p) ==
    /\ fpc[p] = "mark_ready"
    /\ sessions' = MarkReady(sessions, floc[p].upload_id)
    /\ Goto(p, "return", floc[p])
    /\ Did(p, "mark_ready")
    /\ UNCHANGED <<files, jobs, deliveries, fpre>>
    /\ UNCHANGED ivars
    /\ UNCHANGED calls

\* object_finalized answers (lines 22-31): the status code reaches the
\* transport, a 204 acknowledges the push
Respond(p) ==
    /\ Ended(fpc[p])
    /\ acked' = IF StatusOf(fpc[p]) = 204 THEN acked \cup {floc[p].body} ELSE acked
    /\ fpc' = [fpc EXCEPT ![p] = "idle"]
    /\ floc' = [floc EXCEPT ![p] = NoLocals]
    /\ fdid' = [fdid EXCEPT ![p] = {}]
    /\ fpre' = [fpre EXCEPT ![p] = NoSnapshot]
    /\ UNCHANGED <<sessions, files, jobs, deliveries>>
    /\ UNCHANGED ivars
    /\ UNCHANGED calls

-----------------------------------------------------------------------------
(* Status updates from outside the two handlers *)

AdminStatuses == {"ready"}

\* UpdateUploadSessionHandler.do_process with a body that carries a status
UpdateUploadSession(upload_id, status) ==
    /\ upload_id \in DOMAIN sessions
    /\ sessions[upload_id].status # status
    /\ sessions' = UpdateSession(sessions, upload_id, status)
    /\ UNCHANGED <<files, jobs>>
    /\ UNCHANGED ivars
    /\ UNCHANGED fvars
    /\ UNCHANGED calls

\* the processing worker reports a File it was given a job for as ready
WorkerMarkFileReady(file_id) ==
    /\ file_id \in DOMAIN files
    /\ files[file_id].status = "processing"
    /\ \E i \in DOMAIN jobs : jobs[i].fileId = file_id
    /\ files' = MarkStatus(files, file_id, "ready")
    /\ UNCHANGED <<sessions, jobs>>
    /\ UNCHANGED ivars
    /\ UNCHANGED fvars
    /\ UNCHANGED calls

-----------------------------------------------------------------------------
(* Push bodies the endpoint is sent *)

ObjectPayload(o, metadata) ==
    ("bucket" :> o.bucket) @@ ("name" :> o.name) @@ ("contentType" :> o.contentType)
        @@ ("size" :> "5") @@ ("metadata" :> metadata)

\* the finalize notification of an object the Initiator set up: the storage
\* backend hands back the metadata it was given
StorageBodies == {Encode(ObjectPayload(o, o.metadata)) : o \in storage}

\* the same notification with the metadata keys handle_gcs_finalize_push
\* reads (lines 96-99)
UploadIdMetadata(upload_id, datastore_id) ==
    ("uploadId" :> upload_id) @@ ("datastoreId" :> datastore_id)

CorrelatedBodies ==
    {Encode(ObjectPayload(o, UploadIdMetadata(o.metadata["uploadSessionId"],
                                              o.metadata["datastoreId"]))) :
        o \in storage}

\* an object the store has no File row for, its contentType not set
LATE_KEY == <<"raw", "/", "late.bin">>

LatePayload(metadata) ==
    ("bucket" :> BUCKET_NAME) @@ ("name" :> LATE_KEY) @@ ("metadata" :> metadata)

LateBodies ==
    {Encode(LatePayload("datastoreId" :> DATASTORE))}
        \cup {Encode(LatePayload(UploadIdMetadata(u, DATASTORE))) : u \in DOMAIN sessions}

Without(d, k) == [x \in DOMAIN d \ {k} |-> d[x]]

MissingFieldPayloads ==
    LET good == LatePayload("datastoreId" :> DATASTORE)
    IN  { Without(good, "bucket"),
          Without(good, "name"),
          Without(good, "metadata"),
          [good EXCEPT !["bucket"] = None],
          [good EXCEPT !["metadata"] = "uploadId" :> "UPLD1"],
          [good EXCEPT !["metadata"] = "datastoreId" :> ""] }

MissingFieldBodies == {Encode(payload) : payload \in MissingFieldPayloads}

\* message absent, data absent, data empty, only characters outside the
\* alphabet, a broken quad, bytes that are no JSON, two documents
MalformedBodies ==
    LET good == JsonDoc(LatePayload("datastoreId" :> DATASTORE))
    IN  { "subscription" :> "s",
          "message" :> ("messageId" :> "1"),
          PushBody(NoData),
          PushBody(<<Junk>>),
          PushBody(<<Quad(good), Stray>>),
          PushBody(<<Quad(Garbage)>>),
          PushBody(<<Quad(good), Quad(good)>>) }

\* a body whose data is the base64 of a valid payload with a character
\* outside the alphabet in it
StrictlyInvalidBodies ==
    { PushBody(<<Quad(JsonDoc(LatePayload("datastoreId" :> DATASTORE))), Junk>>) }

PushBodies ==
    StorageBodies \cup CorrelatedBodies \cup LateBodies \cup MissingFieldBodies
        \cup MalformedBodies \cup StrictlyInvalidBodies

-----------------------------------------------------------------------------

Init ==
    /\ sessions = << >>
    /\ files = << >>
    /\ jobs = << >>
    /\ storage = {}
    /\ ids = 0
    /\ batches = 0
    /\ ipc = "idle"
    /\ ireq = NoRequest
    /\ isess = None
    /\ iidx = 1
    /\ irow = None
    /\ iout = << >>
    /\ ipre = NoRows
    /\ deliveries = 0
    /\ fpc = [p \in Procs |-> "idle"]
    /\ floc = [p \in Procs |-> NoLocals]
    /\ fdid = [p \in Procs |-> {}]
    /\ fpre = [p \in Procs |-> NoSnapshot]
    /\ acked = {}
    /\ calls = << >>

FinalizeStep(p) ==
    \/ Upsert(p)
    \/ MarkUploadedStep(p)
    \/ LinkUploadStep(p)
    \/ \E outcome \in EnqueueOutcomes : Enqueue(p, outcome)
    \/ MarkProcessingStep(p)
    \/ MarkStatusStep(p)
    \/ MarkReadyStep(p)
    \/ Respond(p)

\* requests of the whole system: one file name, either content type
SystemRequests ==
    {specs \in BatchRequests : \A i \in DOMAIN specs : specs[i].filename = <<"a">>}

\* the whole system is followed through its first create-session request
InitiatorStep ==
    \/ \E specs \in SystemRequests : batches = 0 /\ CreateSession(specs)
    \/ SaveFile
    \/ \E outcome \in InitiateOutcomes : InitiateResumable(outcome)
    \/ InitiatorRespond

OutsideStep ==
    \/ \E u \in DOMAIN sessions, st \in AdminStatuses : UpdateUploadSession(u, st)
    \/ \E f \in DOMAIN files : WorkerMarkFileReady(f)

Idle == \A p \in Procs : fpc[p] = "idle"
Quiet == Idle /\ ipc = "idle"

\* the service with its requests served one at a time: nothing else moves
\* while do_process or a finalize run is under way
Next ==
    \/ Idle /\ InitiatorStep
    \/ Quiet /\ OutsideStep
    \/ Quiet /\ \E body \in PushBodies : FinalizeBegin("w1", body)
    \/ FinalizeStep("w1")

Spec == Init /\ [][Next]_vars

\* the service with finalize requests served concurrently with each other,
\* each `await` a point where the other request moves
NextConcurrent ==
    \/ Idle /\ InitiatorStep
    \/ Quiet /\ OutsideStep
    \/ \E p \in Procs : \E body \in StorageBodies \cup CorrelatedBodies \cup LateBodies :
          ipc = "idle" /\ FinalizeBegin(p, body)
    \/ \E p \in Procs : FinalizeStep(p)

SpecConcurrent == Init /\ [][NextConcurrent]_vars

\* do_process on its own, over every batch request
NextInitiator ==
    \/ \E specs \in BatchRequests : CreateSession(specs)
    \/ SaveFile
    \/ \E outcome \in InitiateOutcomes : InitiateResumable(outcome)
    \/ InitiatorRespond

SpecInitiator == Init /\ [][NextInitiator]_vars

\* arguments of _object_key_for: the handler's base_prefix, the request's
\* datastore id, generated session and file ids, a FileSpec's filename
BasePrefixes == {"raw", "uploads"}
SessionIds == {NewId("UPLD", 0), NewId("UPLD", 1)}
FileIds == {NewId("FILE", 0), NewId("FILE", 1)}
KeyFileNames ==
    FileNames \cup { NoText, <<"b", "_", "c">>, <<NewId("FILE", 1), "/", "a">>,
                     <<"b", "\t", "c">> }

KeyArgs ==
    [base_prefix : BasePrefixes, datastore_id : {DATASTORE}, session_id : SessionIds,
     file_id : FileIds, filename : KeyFileNames]

\* content types as storage reports them, in chunks of characters
ContentTypes ==
    { NoText, CT_PDF, CT_OCTET,
      <<"application", "/", "pdf", ";", "charset">>,
      <<"application", "/", "pdf", "x">>,
      <<"APPLICATION", "/", "PDF">>,
      <<"application", "/">>,
      <<"video", "/", "mp4">>,
      <<"VIDEO", "/", "mp4">>,
      <<"video">>,
      <<"image", "/", "png">>,
      <<"x", "image", "/", "png">>,
      <<"text", "/", "csv">>,
      <<"TEXT", "/", "CSV">>,
      <<"application", "/", "csv">>,
      <<"text", "/", "csv", ";", "charset">>,
      <<"text", "/", "plain">> }

CallObjectKeyFor(a) ==
    /\ Len(calls) < MaxCalls
    /\ calls' = Append(calls,
                       [fn |-> "_object_key_for", args |-> a,
                        result |-> ObjectKeyFor(a.base_prefix, a.datastore_id,
                                                a.session_id, a.file_id, a.filename)])
    /\ UNCHANGED <<sessions, files, jobs>>
    /\ UNCHANGED ivars
    /\ UNCHANGED fvars

CallDetectJobTopic(content_type) ==
    /\ Len(calls) < MaxCalls
    /\ calls' = Append(calls,
                       [fn |-> "_detect_job_topic", args |-> content_type,
                        result |-> DetectJobTopic(content_type)])
    /\ UNCHANGED <<sessions, files, jobs>>
    /\ UNCHANGED ivars
    /\ UNCHANGED fvars

\* the pure helpers called on their own
NextPure ==
    \/ \E a \in KeyArgs : CallObjectKeyFor(a)
    \/ \E content_type \in ContentTypes : CallDetectJobTopic(content_type)

SpecPure == Init /\ [][NextPure]_vars

\* the store after two one-file batches, an application/pdf file and one of
\* no stated content type, and a finalize event without uploadId for an
\* object no batch set up
LinkedSessions ==
    LET s1 == NewId("UPLD", 0)
        s2 == NewId("UPLD", 2)
    IN  Put(Put(<< >>, s1, NewSessionRow(s1, DATASTORE)), s2, NewSessionRow(s2, DATASTORE))

LinkedFiles ==
    LET f1 == NewId("FILE", 1)
        f2 == NewId("FILE", 3)
        rows == Put(Put(<< >>, f1, NewFileRow(f1, DATASTORE, NewId("UPLD", 0),
                                              [filename |-> <<"a">>, content_type |-> CT_PDF])),
                    f2, NewFileRow(f2, DATASTORE, NewId("UPLD", 2),
                                   [filename |-> <<"a">>, content_type |-> NoText]))
        late == CreateOrUpdateFromFinalize(
                    rows, 4, UpsertArgs(PayloadFields(LatePayload("datastoreId" :> DATASTORE))))
    IN  MarkStatus(late.files, late.id, "ready")

LinkedStorage ==
    {[bucket |-> LinkedFiles[f].bucket, name |-> LinkedFiles[f].object_key,
      contentType |-> LinkedFiles[f].content_type,
      metadata |-> GcsMetadata(DATASTORE, LinkedFiles[f].upload_session_id, f)] :
        f \in {NewId("FILE", 1), NewId("FILE", 3)}}

InitLinked ==
    /\ sessions = LinkedSessions
    /\ files = LinkedFiles
    /\ jobs = << >>
    /\ storage = LinkedStorage
    /\ ids = 5
    /\ batches = 2
    /\ ipc = "idle"
    /\ ireq = NoRequest
    /\ isess = None
    /\ iidx = 1
    /\ irow = None
    /\ iout = << >>
    /\ ipre = NoRows
    /\ deliveries = 0
    /\ fpc = [p \in Procs |-> "idle"]
    /\ floc = [p \in Procs |-> NoLocals]
    /\ fdid = [p \in Procs |-> {}]
    /\ fpre = [p \in Procs |-> NoSnapshot]
    /\ acked = {}
    /\ calls = << >>

\* finalize notifications of the stored objects that carry the uploadId of
\* any session of the store
AnyUploadBodies ==
    {Encode(ObjectPayload(o, UploadIdMetadata(u, o.metadata["datastoreId"]))) :
        o \in storage, u \in DOMAIN sessions}

\* finalize requests, one at a time, over a store with two sessions
NextLinked ==
    \/ Idle /\ \E body \in AnyUploadBodies \cup LateBodies : FinalizeBegin("w1", body)
    \/ FinalizeStep("w1")

SpecLinked == InitLinked /\ [][NextLinked]_vars

\* deliveries that ended in an error answer: every push of the redelivering
\* transport is of a valid event, so only a failed enqueue leaves one unacked
FailedDeliveries ==
    deliveries - Cardinality(acked) - Cardinality({p \in Procs : fpc[p] # "idle"})

\* the transport delivers a notification again until it is answered 204
Redeliver(p, body) ==
    /\ body \notin acked
    /\ FinalizeArrive(p, body)

\* enqueue_job under a publisher that fails at most MaxFailures times
EnqueueEventually(p) ==
    \E outcome \in EnqueueOutcomes :
        /\ outcome = "published" \/ FailedDeliveries < MaxFailures
        /\ Enqueue(p, outcome)

\* the notifications of the routable objects of the store, with the metadata
\* the Initiator attached and with the uploadId the processor reads
RoutableNotifications ==
    UNION {{Encode(ObjectPayload(o, o.metadata)),
            Encode(ObjectPayload(o, UploadIdMetadata(o.metadata["uploadSessionId"],
                                                     o.metadata["datastoreId"])))} :
           o \in {x \in LinkedStorage : DetectJobTopic(x.contentType) # None}}

\* finalize requests of a redelivering transport for the routable objects,
\* one at a time, over the store with two sessions; their File rows are
\* linked and their content type has a topic, so a run takes no other step
NextRedelivery ==
    \/ \E body \in RoutableNotifications : Redeliver("w1", body)
    \/ Upsert("w1")
    \/ MarkUploadedStep("w1")
    \/ EnqueueEventually("w1")
    \/ MarkProcessingStep("w1")
    \/ Respond("w1")

\* the transport keeps delivering and a request under way keeps running
SpecRedelivery == InitLinked /\ [][NextRedelivery]_vars /\ WF_vars(NextRedelivery)

-----------------------------------------------------------------------------
(* Properties *)

StoreUnchangedSince(p) ==
    /\ files = fpre[p].files
    /\ sessions = fpre[p].sessions
    /\ jobs = fpre[p].jobs

JobsFor(js, key) == {i \in DOMAIN js : js[i].objectKey = key}

Validated(p) == fpc[p] \notin {"idle", "value_error"}

\* C1: a finalize notification that was processed and acknowledged before is
\* a no-op when it is processed again: when the second run returns, every
\* File and UploadSession row is as it was when that run began and no job
\* has been added to the queue.
C1_RedeliveryIsNoOp ==
    \A p \in Procs :
        (fpc[p] = "return" /\ fpre[p].redelivery) => StoreUnchangedSince(p)

KeyWasReady(p) ==
    \E f \in DOMAIN fpre[p].files :
        /\ fpre[p].files[f].object_key = floc[p].object_key
        /\ fpre[p].files[f].status = "ready"

\* C2: a finalize notification delivered again for an object key whose File
\* was ready when the run began is a no-op: the run ends with no job added
\* and no File or UploadSession field changed.
C2_ReadyKeyIsNoOp ==
    \A p \in Procs :
        (Validated(p) /\ Ended(fpc[p]) /\ fpre[p].redelivery /\ KeyWasReady(p))
        => StoreUnchangedSince(p)

\* C3: no step, the steps inside one finalize run included, takes a File
\* whose status is ready to processing or authorized.
C3_FileStaysReady ==
    [][\A f \in DOMAIN files :
          files[f].status = "ready" =>
              files'[f].status \notin {"processing", "authorized"}]_vars

Rank(status) ==
    CASE status \in {"initiated", "authorized"} -> 0
      [] status = "uploaded" -> 1
      [] status = "processing" -> 2
      [] status = "ready" -> 3
      [] OTHER -> 4

\* C4: no step of a finalize run moves an UploadSession backward along
\* authorized -> uploaded -> processing -> ready.
C4_SessionOnlyForward ==
    [][fpc' # fpc =>
          \A s \in DOMAIN sessions :
              Rank(sessions'[s].status) >= Rank(sessions[s].status)]_vars

FreshObject(p) ==
    LET key == floc[p].object_key
    IN  /\ JobsFor(fpre[p].jobs, key) = {}
        /\ \A f \in FileIdsByKey(fpre[p].files, key) :
              /\ fpre[p].files[f].status = "authorized"
              /\ fpre[p].sessions[fpre[p].files[f].upload_session_id].status = "authorized"

\* C5: the first finalize run for a file the Initiator created with a routable
\* content type, fed the notification that carries the metadata the Initiator
\* attached, returns with the File processing, exactly one job for the key,
\* on the topic of the content type and with the session id as uploadId, and
\* the Initiator's UploadSession processing.
C5_InitiatorFileIsCorrelated ==
    \A p \in Procs :
        ( /\ fpc[p] = "return"
          /\ floc[p].body \in StorageBodies
          /\ DetectJobTopic(floc[p].content_type) # None
          /\ FreshObject(p) )
        => \A f \in FileIdsByKey(files, floc[p].object_key) :
              LET sid == files[f].upload_session_id
                  mine == JobsFor(jobs, floc[p].object_key)
              IN  /\ files[f].status = "processing"
                  /\ Cardinality(mine) = 1
                  /\ \A i \in mine :
                        /\ jobs[i].topic = DetectJobTopic(files[f].content_type)
                        /\ jobs[i].uploadId = sid
                  /\ sessions[sid].status = "processing"

DataOf(body) ==
    LET msg == IF "message" \in DOMAIN body THEN body["message"] ELSE EmptyDict
    IN  IF "data" \in DOMAIN msg THEN msg["data"] ELSE NoData

\* the decoded payload of a well-formed body has no usable bucket, name or
\* metadata.datastoreId
LacksRequiredField(body) ==
    LET data == DataOf(body)
    IN  /\ Len(data) = 1
        /\ data[1].sym = "quad"
        /\ data[1].text.doc = "json"
        /\ LET payload == data[1].text.value
           IN  \/ "bucket" \notin DOMAIN payload
               \/ payload["bucket"] \in {None, ""}
               \/ "name" \notin DOMAIN payload
               \/ "metadata" \notin DOMAIN payload
               \/ "datastoreId" \notin DOMAIN payload["metadata"]
               \/ payload["metadata"]["datastoreId"] \in {None, ""}

\* C6: a run whose payload lacks bucket, name or metadata.datastoreId stops
\* with the missing-fields error before the upsert: the store and the queue
\* are as they were when it began and the endpoint's answer is not 204.
C6_MissingFieldsRejected ==
    \A p \in Procs :
        (fpc[p] # "idle" /\ LacksRequiredField(floc[p].body))
        => /\ fpc[p] = "value_error"
           /\ fdid[p] = {"decode", "missing_fields"}
           /\ StoreUnchangedSince(p)
           /\ StatusOf(fpc[p]) = 400

C6_Witness ==
    \E p \in Procs :
        /\ fpc[p] = "value_error"
        /\ LacksRequiredField(floc[p].body)
        /\ "bucket" \notin DOMAIN DataOf(floc[p].body)[1].text.value
        /\ DOMAIN files # {}

\* message.data is absent or empty, holds a character that is not part of a
\* base64 quad, or is not the encoding of one JSON document
DataMalformed(body) ==
    LET data == DataOf(body)
    IN  \/ data = NoData
        \/ \E i \in DOMAIN data : data[i].sym # "quad"
        \/ ~(Len(data) = 1 /\ data[1].text.doc = "json")

\* C7: a run whose message.data is absent, empty, not valid base64 or not
\* valid JSON stops in the decode step with the malformed-event error, the
\* store and the queue untouched.
C7_MalformedRejected ==
    \A p \in Procs :
        (fpc[p] # "idle" /\ DataMalformed(floc[p].body))
        => /\ fpc[p] = "value_error"
           /\ fdid[p] = {"malformed"}
           /\ StoreUnchangedSince(p)

Routable(p) == DetectJobTopic(floc[p].content_type) # None

\* C8: a run whose enqueue failed or timed out ends by raising, without
\* having marked the session processing, and is answered 500; a run of a
\* routable event that is answered 204 has had its job published and has
\* issued every status write: the upsert, and mark_uploaded and
\* mark_processing when the event carries an uploadId.
C8_DispatchFailureAborts ==
    \A p \in Procs :
        /\ "enqueue_error" \in fdid[p]
           => /\ fpc[p] = "raise"
              /\ StatusOf(fpc[p]) = 500
              /\ "mark_processing" \notin fdid[p]
              /\ \A u \in DOMAIN sessions :
                    sessions[u].status = "processing"
                        => fpre[p].sessions[u].status = "processing"
        /\ (Validated(p) /\ StatusOf(fpc[p]) = 204 /\ Routable(p))
           => /\ {"upsert", "enqueue"} \subseteq fdid[p]
              /\ Len(jobs) = Len(fpre[p].jobs) + 1
              /\ jobs[Len(jobs)].objectKey = floc[p].object_key
              /\ Truthy(floc[p].upload_id)
                    => {"mark_uploaded", "mark_processing"} \subseteq fdid[p]

C8_Witness ==
    \E p \in Procs :
        /\ "enqueue_error" \in fdid[p]
        /\ fpc[p] = "raise"
        /\ Truthy(floc[p].upload_id)
        /\ floc[p].upload_id \in DOMAIN sessions
        /\ sessions[floc[p].upload_id].status = "uploaded"

\* C9: two finalize runs for one object key that began from the same store
\* and queue and have both returned leave exactly one File row for the key
\* and at most one job for it.
C9_ConcurrentDuplicates ==
    \A p, q \in Procs :
        ( /\ p # q
          /\ fpc[p] = "return"
          /\ fpc[q] = "return"
          /\ floc[p].object_key = floc[q].object_key
          /\ fpre[p] = fpre[q]
          /\ JobsFor(fpre[p].jobs, floc[p].object_key) = {} )
        => /\ Cardinality(FileIdsByKey(files, floc[p].object_key)) = 1
           /\ Cardinality(JobsFor(jobs, floc[p].object_key)) <= 1

NewSessions == DOMAIN sessions \ ipre.sessions
NewFiles == DOMAIN files \ ipre.files

\* C10: when do_process returns for a batch of N >= 1 file specs, it has
\* created exactly the one UploadSession row of its session id and exactly N
\* File rows, every one linked to that session, with pairwise distinct
\* object keys.
C10_OneSessionNFiles ==
    (ipc = "return" /\ Len(ireq.files) >= 1)
    => /\ NewSessions = {isess}
       /\ Cardinality(NewFiles) = Len(ireq.files)
       /\ \A f \in NewFiles : files[f].upload_session_id = isess
       /\ \A f, g \in NewFiles :
             f # g => files[f].object_key # files[g].object_key

C10_Witness ==
    /\ ipc = "return"
    /\ Len(ireq.files) = 2
    /\ ireq.files[1].filename = ireq.files[2].filename
    /\ Cardinality(NewFiles) = 2

KeyCalls == {i \in DOMAIN calls : calls[i].fn = "_object_key_for"}

DifferOnlyInFileId(a, b) ==
    /\ a.file_id # b.file_id
    /\ [a EXCEPT !.file_id = b.file_id] = b

\* C11: _object_key_for gives the same key for the same (base prefix,
\* datastore id, session id, file id, filename); two calls that differ only in
\* the file id give different keys; and two calls of one handler for one
\* datastore with different file ids give different keys whatever their
\* sessions and filenames, so no two File rows of the Initiator share a key.
C11_ObjectKeyInjective ==
    \A i, j \in KeyCalls :
        LET a == calls[i].args
            b == calls[j].args
        IN  /\ a = b => calls[i].result = calls[j].result
            /\ DifferOnlyInFileId(a, b) => calls[i].result # calls[j].result
            /\ (a.file_id # b.file_id /\ a.base_prefix = b.base_prefix)
                  => calls[i].result # calls[j].result

C11_Witness ==
    /\ Len(calls) = 2
    /\ KeyCalls = {1, 2}
    /\ DifferOnlyInFileId(calls[1].args, calls[2].args)
    /\ calls[1].args.filename = <<"b", " ", "c">>
    /\ calls[1].result # calls[2].result

TopicCalls == {i \in DOMAIN calls : calls[i].fn = "_detect_job_topic"}

\* the routing table read off a content type ct for a result r
RoutedByTable(ct, r) ==
    /\ StartsWith(ct, <<"application", "/", "pdf">>) => r = "process-pdf"
    /\ StartsWith(ct, <<"video", "/">>) => r = "process-video"
    /\ StartsWith(ct, <<"image", "/">>) => r = "process-image"
    /\ ct \in { <<"text", "/", "csv">>, <<"application", "/", "csv">> } => r = "process-csv"
    /\ ( /\ ~StartsWith(ct, <<"application", "/", "pdf">>)
         /\ ~StartsWith(ct, <<"video", "/">>)
         /\ ~StartsWith(ct, <<"image", "/">>)
         /\ ct \notin { <<"text", "/", "csv">>, <<"application", "/", "csv">> } )
       => r = None

\* C12 as stated: _detect_job_topic gives process-pdf for a content type
\* starting with application/pdf, process-video for one starting with video/,
\* process-image for one starting with image/, process-csv for exactly
\* text/csv or application/csv, and no topic for every other content type.
C12_RoutingTableAsWritten ==
    \A i \in TopicCalls : RoutedByTable(calls[i].args, calls[i].result)

\* C12: _detect_job_topic routes by that table applied to the content type
\* in lower case, so a content type that matches a row only up to letter case
\* gets that row's topic and not none; equal content types get equal results
\* on every call.
C12_RoutingTableIgnoringCase ==
    \A i, j \in TopicCalls :
        /\ RoutedByTable(Lower(calls[i].args), calls[i].result)
        /\ calls[i].args = calls[j].args => calls[i].result = calls[j].result

C12_Witness ==
    \E i, j \in TopicCalls :
        /\ calls[i].args = <<"VIDEO", "/", "mp4">>
        /\ calls[i].result = "process-video"
        /\ calls[j].args = <<"text", "/", "csv", ";", "charset">>
        /\ calls[j].result = None

\* C13: when a run of a valid event whose content type matches no route has
\* returned, the File of its object key is ready, the UploadSession its
\* uploadId names, when it carries one, is ready, and the run has enqueued
\* no job.
C13_NoRouteIsReady ==
    \A p \in Procs :
        (fpc[p] = "return" /\ ~Routable(p))
        => /\ FileIdsByKey(files, floc[p].object_key) # {}
           /\ \A f \in FileIdsByKey(files, floc[p].object_key) :
                 files[f].status = "ready"
           /\ (Truthy(floc[p].upload_id) /\ floc[p].upload_id \in DOMAIN sessions)
                 => sessions[floc[p].upload_id].status = "ready"
           /\ jobs = fpre[p].jobs
           /\ fdid[p] \cap {"enqueue", "enqueue_error"} = {}

C13_Witness ==
    \E p \in Procs :
        /\ fpc[p] = "return"
        /\ ~Routable(p)
        /\ floc[p].body \in CorrelatedBodies
        /\ fpre[p].sessions[floc[p].upload_id].status = "authorized"
        /\ sessions[floc[p].upload_id].status = "ready"
        /\ \A f \in FileIdsByKey(fpre[p].files, floc[p].object_key) :
              fpre[p].files[f].status = "authorized"

ReportedFiles(resp) == {resp.data[k].file_id : k \in DOMAIN resp.data}
ReportedErrors(resp) == IF "errors" \in DOMAIN resp THEN resp.errors ELSE {}

\* C14: when the storage backend rejects the initiation for a file of a
\* batch, what do_process hands back names that file with an error and
\* names every file of the batch whose initiation succeeded, so that every
\* File row the run has saved is accounted for in it.
C14_PartialFailureReported ==
    ipc = "raise"
    => LET resp == InitiatorResponse(ipc, iout)
       IN  /\ irow \in ReportedErrors(resp)
           /\ \A k \in DOMAIN iout : iout[k].file_id \in ReportedFiles(resp)
           /\ NewFiles \subseteq ReportedFiles(resp) \cup ReportedErrors(resp)

\* C15: at the moment do_process asks the storage backend to initiate the
\* upload of file i, its UploadSession row is saved and so is the File row
\* of that file, status authorized, with the object key derived for it; the
\* initiations of files 1..i-1 have returned and no row of a later file is
\* saved; a File row is saved only when every earlier file's initiation has
\* returned; every upload the backend accepted is of a saved row's key.
C15_PersistBeforeInitiate ==
    /\ ipc = "initiate"
       => /\ isess \in DOMAIN sessions
          /\ irow \in DOMAIN files
          /\ files[irow].status = "authorized"
          /\ files[irow].object_key =
                ObjectKeyFor(BASE_PREFIX, ireq.datastore_id, isess, irow,
                             ireq.files[iidx].filename)
          /\ Cardinality(NewFiles) = iidx
          /\ Len(iout) = iidx - 1
    /\ ipc = "save_file"
       => /\ isess \in DOMAIN sessions
          /\ Cardinality(NewFiles) = iidx - 1
          /\ Len(iout) = iidx - 1
    /\ \A o \in storage : FileIdsByKey(files, o.name) # {}

C15_Witness ==
    /\ ipc = "initiate"
    /\ iidx = 2
    /\ Len(iout) = 1
    /\ Cardinality(NewFiles) = 2
    /\ Cardinality(storage) = 1

C17_NeverSkipsUploaded ==
    [][\A p \in Procs :
          /\ fpc[p] = "mark_processing"
                => /\ {"mark_uploaded", "enqueue"} \subseteq fdid[p]
                   /\ Len(jobs) = Len(fpre[p].jobs) + 1
          /\ fpc[p] = "mark_ready" => "mark_uploaded" \in fdid[p]
          /\ \A s \in DOMAIN sessions :
                ( /\ fpc[p] \in {"mark_processing", "mark_ready"}
                  /\ fpc'[p] # fpc[p]
                  /\ sessions'[s].status # sessions[s].status )
                => Rank(sessions[s].status) >= Rank("uploaded") ]_vars

C17_Witness ==
    \E p \in Procs :
        /\ fpc[p] = "return"
        /\ {"mark_uploaded", "enqueue", "mark_processing"} \subseteq fdid[p]
        /\ fpre[p].sessions[floc[p].upload_id].status = "authorized"
        /\ sessions[floc[p].upload_id].status = "processing"

\* C18: when do_process returns, its response is a 201 whose data has one
\* entry per file spec, in the order of the specs: entry k carries the
\* session id of the run, the id and the object key of the File row saved
\* for spec k, the upload URL the storage backend answered for that key,
\* unchanged, and the chunk size 8 MiB; no two entries name the same file.
C18_ResponseShape ==
    ipc = "return"
    => LET resp == InitiatorResponse(ipc, iout)
       IN  /\ resp.status_code = 201
           /\ Len(resp.data) = Len(ireq.files)
           /\ \A k \in DOMAIN resp.data :
                 LET e == resp.data[k]
                 IN  /\ e.session_id = isess
                     /\ e.file_id \in NewFiles
                     /\ files[e.file_id].filename = ireq.files[k].filename
                     /\ files[e.file_id].content_type = InferContentType(ireq.files[k])
                     /\ e.object_key = files[e.file_id].object_key
                     /\ e.upload_url = LocationOf(e.object_key)
                     /\ e.suggested_chunk_bytes = 8 * 1024 * 1024
           /\ \A j, k \in DOMAIN resp.data :
                 j # k => resp.data[j].file_id # resp.data[k].file_id

C18_Witness ==
    /\ ipc = "return"
    /\ Len(iout) = 2
    /\ ireq.files[1].filename = <<"b", " ", "c">>
    /\ ireq.files[2].filename = <<"a">>
    /\ ireq.files[1].content_type # ireq.files[2].content_type

\* C19: do_process called with no file spec saves no UploadSession row and
\* does not return its success response.
C19_EmptyBatchRejected ==
    (ipc # "idle" /\ Len(ireq.files) = 0)
    => /\ NewSessions = {}
       /\ InitiatorResponse(ipc, iout).status_code # 201

NotificationKey(body) == DataOf(body)[1].text.value["name"]

\* C20: under a transport that redelivers until the 204 and a publisher
\* that stops failing, every notification of a routable object is eventually
\* acknowledged with a job for its object key in the queue, and it happens
\* again and again that no File is processing without a job for its key.
C20_EventuallyAckedWithJob ==
    /\ \A body \in RoutableNotifications :
          <>(body \in acked /\ JobsFor(jobs, NotificationKey(body)) # {})
    /\ []<>(\A f \in DOMAIN files :
                files[f].status = "processing"
                    => JobsFor(jobs, files[f].object_key) # {})

C20_Witness ==
    /\ RoutableNotifications \subseteq acked
    /\ FailedDeliveries = MaxFailures
    /\ \E f \in DOMAIN files :
          /\ files[f].status = "processing"
          /\ JobsFor(jobs, files[f].object_key) # {}

Whitespace == {" ", "\t", "\n"}

\* C21: every key _object_key_for derives is
\* <basePrefix>/datastore/<datastoreId>/session/<sessionId>/file/<fileId>/
\* followed by one non-empty segment made from the filename, with no path
\* separator and no whitespace character in it.
C21_FilenameIsOneCleanSegment ==
    \A i \in KeyCalls :
        LET a == calls[i].args
            key == calls[i].result
            head == <<a.base_prefix, "/", "datastore", "/", a.datastore_id, "/",
                      "session", "/", a.session_id, "/", "file", "/", a.file_id, "/">>
        IN  /\ Len(key) > Len(head)
            /\ SubSeq(key, 1, Len(head)) = head
            /\ \A k \in (Len(head) + 1)..Len(key) :
                  key[k] # "/" /\ key[k] \notin Whitespace

\* C22: an UploadSession that a finalize run for a file of its batch has
\* marked ready has no File of that session in authorized or processing.
C22_ReadySessionHasNoPendingFile ==
    \A p \in Procs :
        ( /\ "mark_ready" \in fdid[p]
          /\ floc[p].body \in CorrelatedBodies
          /\ floc[p].upload_id \in DOMAIN sessions
          /\ sessions[floc[p].upload_id].status = "ready" )
        => \A f \in DOMAIN files :
              files[f].upload_session_id = floc[p].upload_id
                  => files[f].status \notin {"authorized", "processing"}

\* the job describes the File row
JobMatchesRow(job, row) ==
    /\ job.fileId = row.id
    /\ job.bucket = row.bucket
    /\ job.objectKey = row.object_key
    /\ job.contentType = row.content_type
    /\ job.size = row.size
    /\ job.topic = DetectJobTopic(job.contentType)
    /\ job.topic # None

\* C23: when a run is about to call enqueue_job, the File row its upsert
\* returned exists, is the row of the event's object key and is processing;
\* and once the run has published its job, the job carries that row's id and
\* the row's bucket, object key, content type and size, which are the
\* event's, on the topic of that content type, the row being processing.
C23_JobMatchesRow ==
    \A p \in Procs :
        /\ fpc[p] = "enqueue"
              => /\ "upsert" \in fdid[p]
                 /\ floc[p].file_row.id \in DOMAIN files
                 /\ FileIdsByKey(files, floc[p].object_key) = {floc[p].file_row.id}
                 /\ files[floc[p].file_row.id].status = "processing"
        /\ (fpc[p] # "idle" /\ fdid[p] \cap {"enqueue", "enqueue_error"} # {}
               /\ Len(jobs) > Len(fpre[p].jobs))
              => LET job == jobs[Len(jobs)]
                 IN  /\ job.fileId \in DOMAIN fpre[p].files \cup DOMAIN files
                     /\ job.fileId \in DOMAIN files
                     /\ JobMatchesRow(job, files[job.fileId])
                     /\ job.bucket = floc[p].bucket
                     /\ job.objectKey = floc[p].object_key
                     /\ job.contentType = floc[p].content_type
                     /\ job.size = floc[p].size
                     /\ files[job.fileId].status = "processing"

C23_Witness ==
    \E p \in Procs :
        /\ fpc[p] = "return"
        /\ "enqueue" \in fdid[p]
        /\ Len(jobs) = Len(fpre[p].jobs) + 1
        /\ jobs[Len(jobs)].fileId \in DOMAIN fpre[p].files
        /\ fpre[p].files[jobs[Len(jobs)].fileId].status = "authorized"
        /\ fpre[p].files[jobs[Len(jobs)].fileId].size # jobs[Len(jobs)].size

====
